---------------------------- MODULE Spec2Model ----------------------------
(***************************************************************************)
(* Model of src/bot.py: the price setting, the withdrawal ledger           *)
(* (handle_withdraw_address, cmd_wdlist, cb_approve_decline) and the       *)
(* ownership verification task (cmd_verify, verify_group_process) over the *)
(* three MongoDB collections users, withdraws and settings.                *)
(*                                                                         *)
(* Every pymongo call is one atomic storage operation.  The decision       *)
(* handler is modelled one storage operation per step, for several handler *)
(* instances sharing the database, and may stop between two operations.    *)
(* The verification task is modelled one awaited call per step.            *)
(***************************************************************************)
EXTENDS Integers, Sequences, FiniteSets

\* ------------------------------------------------------------------ bounds
\* Number of withdraw documents the model lets handle_withdraw_address insert.
MaxWithdraws == 2
\* Number of times the model lets a decision handler stop between two writes.
MaxStops == 1

\* --------------------------------------------------------- program constants
ADMIN_ID == 1
DEFAULT_PRICE == 100
timeout == 120
interval == 5

\* Telegram user ids that send updates: the admin and one ordinary user.
Users == {ADMIN_ID, 2}
\* The verification tasks that may run at the same time (asyncio.create_task)
\* and the cb_approve_decline instances that may run at the same time.
Attempts == {1, 2}
Deciders == {1, 2}

\* Group links a caller may pass to /verify, with the creation year carried by
\* the entity userbot.get_entity returns for each (0: the entity has no
\* "date" attribute, getattr(entity, "date", None) is None).
Groups == {"g2015", "g2016", "g2024", "g2025", "gnodate"}
GroupDate(link) ==
  CASE link = "g2015" -> 2015
    [] link = "g2016" -> 2016
    [] link = "g2024" -> 2024
    [] link = "g2025" -> 2025
    [] link = "gclosed" -> 2016
    [] OTHER -> 0

\* A group the userbot account reaches in no way: JoinChannelRequest raises
\* for it and so does every userbot.send_message to it.
Closed == {"gclosed"}

\* The withdrawal address a user sends (any text starting with "0x").
Addresses == {"0xABC"}

VARIABLES
  users_col,      \* users collection: user_id -> [balance, verified_groups]
  withdraws_col,  \* withdraws collection, in insertion order; _id = index
  settings_col,   \* the value of the settings document with key "old_price"
  att,            \* verification tasks: attempt -> its position and locals
  admins,         \* groups in which the userbot account is an administrator
  dec,            \* decision handler instances: position and locals
  reply,          \* the last message.reply / q.answer of a handler: [to, text]
  sent,           \* messages handed to bot.send_message: {[to, kind, ref]}
  debits,         \* history: per withdraw _id, how often line 264 debited it
  decisions,      \* history: per withdraw _id, how often its status was set
  stops,          \* history: how often a decision handler stopped half-way
  listed          \* the _ids of the last answer of /wdlist, in its order

vars == <<users_col, withdraws_col, settings_col, att, admins, dec, reply,
          sent, debits, decisions, stops, listed>>

\* ------------------------------------------------------------ storage layer
\* users_col.find_one(...).get("balance", 0), 0 when there is no document.
Balance(u) == IF u \in DOMAIN users_col THEN users_col[u].balance ELSE 0

VerifiedGroups(u) ==
  IF u \in DOMAIN users_col THEN users_col[u].verified_groups ELSE <<>>

\* ensure_user: upsert with $setOnInsert, an existing document is untouched.
ensure_user(col, u) ==
  IF u \in DOMAIN col THEN col
  ELSE [x \in DOMAIN col \cup {u} |->
          IF x = u THEN [balance |-> 0, verified_groups |-> <<>>] ELSE col[x]]

\* Faulty variant: $set where $inc is meant (the stored value is overwritten).
MongoSet(stored, delta) == delta
\* MongoDB's $inc applied to the stored value.
MongoInc(stored, delta) == stored + delta

\* users_col.update_one({"user_id": u}, {"$inc": {"balance": delta}}): no upsert.
IncBalance(col, u, delta) ==
  IF u \in DOMAIN col
  THEN [col EXCEPT ![u].balance = MongoInc(@, delta)]
  ELSE col

\* update_one(..., {"$inc": {"balance": price}, "$push": {"verified_groups":
\* link}}, upsert=True): one atomic update of one document.
CreditAndPush(col, u, price, link) ==
  LET c == ensure_user(col, u)
  IN [c EXCEPT ![u].balance = MongoInc(@, price),
               ![u].verified_groups = Append(@, link)]

\* The result of a find_one that matches nothing (wd = None).
NoDoc == [user_id |-> 0, address |-> "", amount |-> 0, status |-> "none",
          created_at |-> 0, processed_by |-> 0]

\* withdraws_col.find_one({"_id": ObjectId(wid)}): None for an unknown id.
FindWithdraw(wid) ==
  IF wid \in 1..Len(withdraws_col) THEN withdraws_col[wid] ELSE NoDoc

\* get_price: int(doc["value"]).
get_price == settings_col

\* set_price: $set of int(value) on the "old_price" document.
set_price(value) == value

\* ------------------------------------------------------------ int(parts[1])
\* A token of message.text.split() is a sequence of characters.
Digits == <<"0", "1", "2", "3", "4", "5", "6", "7", "8", "9">>
IsDigit(c) == \E d \in 1..10 : Digits[d] = c
DigitVal(c) == (CHOOSE d \in 1..10 : Digits[d] = c) - 1

Unsigned(tok) ==
  IF Len(tok) > 0 /\ tok[1] \in {"+", "-"} THEN Tail(tok) ELSE tok

\* Whether Python's int(tok) returns (otherwise it raises ValueError).
IsIntLiteral(tok) ==
  /\ Len(Unsigned(tok)) > 0
  /\ \A i \in 1..Len(Unsigned(tok)) : IsDigit(Unsigned(tok)[i])

RECURSIVE DigitsValue(_)
DigitsValue(ds) ==
  IF ds = <<>> THEN 0
  ELSE 10 * DigitsValue(SubSeq(ds, 1, Len(ds) - 1)) + DigitVal(ds[Len(ds)])

\* The value of Python's int(tok) for a token it accepts.
ParseInt(tok) ==
  IF Len(tok) > 0 /\ tok[1] = "-"
  THEN 0 - DigitsValue(Unsigned(tok))
  ELSE DigitsValue(Unsigned(tok))

\* The words after "/price" in the messages the model sends.
PriceArgs ==
  { <<>>, << <<"1", "0", "0">> >>, << <<"-", "3">> >>, << <<"x">> >>,
    << <<"2", ".", "5">> >> }

\* The text a handler answers its sender with.
Reply(u, text) == text

\* Faulty variant: every sender passes the test.
IsAdminAnyone(id) == TRUE
\* The test of lines 181, 237 and 250 on the sender's id.
IsAdmin(id) == id = ADMIN_ID

\* ------------------------------------------------------------------ /price
\* cmd_price, lines 179-191.
cmd_price(from, args) ==
  /\ IF ~IsAdmin(from)
     THEN /\ reply' = Reply(from, "Unauthorized")
          /\ UNCHANGED settings_col
     ELSE IF Len(args) < 1
     THEN /\ reply' = Reply(from, "Usage")
          /\ UNCHANGED settings_col
     ELSE IF ~IsIntLiteral(args[1])
     THEN /\ reply' = Reply(from, "NotANumber")
          /\ UNCHANGED settings_col
     ELSE /\ settings_col' = set_price(ParseInt(args[1]))
          /\ reply' = Reply(from, "PriceSet")
  /\ UNCHANGED <<users_col, withdraws_col, att, admins, dec, sent, debits,
                 decisions, stops, listed>>

\* --------------------------------------------------------------- withdraw
\* Faulty variant: balance < 0 where balance <= 0 is meant.
EmptyBalanceLax(balance) == balance < 0
\* The balance test of handle_withdraw_address, line 205.
EmptyBalance(balance) == balance <= 0

\* datetime.utcnow() at line 214: the clock of the model advances by one with
\* every document inserted, so created_at orders the documents by insertion.
utcnow == Len(withdraws_col) + 1

\* The document of lines 209-215.
WithdrawDoc(u, addr, balance) ==
  [user_id |-> u, address |-> addr, amount |-> balance, status |-> "pending",
   created_at |-> utcnow, processed_by |-> 0]

Msg(to, kind, ref) == [to |-> to, kind |-> kind, ref |-> ref]

\* handle_withdraw_address, lines 200-232: no await lies between the find_one
\* and the insert_one, the handler is one step up to the notifications.
handle_withdraw_address(u, addr) ==
  LET col == ensure_user(users_col, u)
      balance == col[u].balance
      wid == Len(withdraws_col) + 1
  IN /\ users_col' = col
     /\ IF EmptyBalance(balance)
        THEN /\ reply' = Reply(u, "EmptyBalance")
             /\ UNCHANGED <<withdraws_col, sent, debits, decisions>>
        ELSE /\ Len(withdraws_col) < MaxWithdraws
             /\ withdraws_col' = Append(withdraws_col, WithdrawDoc(u, addr, balance))
             /\ debits' = Append(debits, 0)
             /\ decisions' = Append(decisions, 0)
             /\ sent' = sent \cup {Msg(ADMIN_ID, "withdraw_request", wid)}
             /\ reply' = Reply(u, "Submitted")
     /\ UNCHANGED <<settings_col, att, admins, dec, stops, listed>>

\* ----------------------------------------------------------------- /wdlist
\* The orders a cursor without a sort may return the documents ids in: the
\* store promises none (often, not always, the order of insertion).
NaturalOrders(ids) ==
  {q \in [1..Cardinality(ids) -> ids] :
     \A i, j \in 1..Cardinality(ids) : i # j => q[i] # q[j]}

\* list(withdraws_col.find({"status": "pending"})), line 239: the _ids of the
\* documents, in each order the cursor may give them.
FindPending ==
  NaturalOrders({w \in 1..Len(withdraws_col) :
                   withdraws_col[w].status = "pending"})

\* cmd_wdlist, lines 235-245: one line per document, in the cursor's order.
cmd_wdlist(from) ==
  /\ IF ~IsAdmin(from)
     THEN /\ reply' = Reply(from, "Unauthorized")
          /\ UNCHANGED listed
     ELSE IF FindPending = {<<>>}
     THEN /\ reply' = Reply(from, "NoPending")
          /\ UNCHANGED listed
     ELSE \E docs \in FindPending :
            /\ listed' = docs
            /\ reply' = Reply(from, "Listed")
  /\ UNCHANGED <<users_col, withdraws_col, settings_col, att, admins, dec, sent,
                 debits, decisions, stops>>

\* ---------------------------------------------------------------- decide
\* A decision handler instance between two calls.
IdleDecider == [pc |-> "idle", wid |-> 0, wd |-> NoDoc, by |-> 0]

\* Faulty variant: the status of the document is not looked at.
NotDecidableUnknown(wd) == wd = NoDoc
\* The test of lines 260 and 294 on the document find_one returned.
NotDecidable(wd) == wd = NoDoc \/ wd.status # "pending"

\* Faulty variant: the debit is the owner's balance at approval time.
DebitOfBalance(wd) == Balance(wd.user_id)
\* The amount line 264 subtracts: the amount of the document read at line 257.
DebitOf(wd) == wd.amount

\* cb_approve_decline up to the test of line 260 / 294: the authorization
\* check, the find_one and the early returns.  kind is "approve" or "decline",
\* wid the id in the callback data (0: an id no document has).  The update is
\* handled by the first instance that is free (instances are interchangeable).
DecideBegin(h, from, kind, wid) ==
  /\ dec[h].pc = "idle"
  /\ \A g \in Deciders : g < h => dec[g].pc # "idle"
  /\ IF ~IsAdmin(from)
     THEN /\ reply' = Reply(from, "Unauthorized")
          /\ UNCHANGED dec
     ELSE IF NotDecidable(FindWithdraw(wid))
     THEN /\ reply' = Reply(from, "AlreadyProcessed")
          /\ UNCHANGED dec
     ELSE /\ dec' = [dec EXCEPT ![h] = [pc |-> kind, wid |-> wid,
                                        wd |-> FindWithdraw(wid), by |-> from]]
          /\ UNCHANGED reply
  /\ UNCHANGED <<users_col, withdraws_col, settings_col, att, admins, sent,
                 debits, decisions, stops, listed>>

\* Line 264: the $inc of -amount on the user's balance.
ApproveDebit(h) ==
  /\ dec[h].pc = "approve"
  /\ users_col' = IncBalance(users_col, dec[h].wd.user_id, 0 - DebitOf(dec[h].wd))
  /\ debits' = [debits EXCEPT ![dec[h].wid] = @ + 1]
  /\ dec' = [dec EXCEPT ![h].pc = "approved"]
  /\ UNCHANGED <<withdraws_col, settings_col, att, admins, reply, sent,
                 decisions, stops, listed>>

\* The unconditional $set of lines 265 and 297.
SetStatus(col, wid, status, by) ==
  [col EXCEPT ![wid].status = status, ![wid].processed_by = by]

\* Lines 265-286: the status update, the notifications, the answer.
ApproveSet(h) ==
  /\ dec[h].pc = "approved"
  /\ withdraws_col' = SetStatus(withdraws_col, dec[h].wid, "approved", dec[h].by)
  /\ decisions' = [decisions EXCEPT ![dec[h].wid] = @ + 1]
  /\ sent' = sent \cup {Msg(dec[h].wd.user_id, "approved", dec[h].wid),
                        Msg(0, "channel_approved", dec[h].wid)}
  /\ reply' = Reply(dec[h].by, "Approved")
  /\ dec' = [dec EXCEPT ![h] = IdleDecider]
  /\ UNCHANGED <<users_col, settings_col, att, admins, debits, stops, listed>>

\* Lines 297-306: the status update, the notification, the answer.
DeclineSet(h) ==
  /\ dec[h].pc = "decline"
  /\ withdraws_col' = SetStatus(withdraws_col, dec[h].wid, "declined", dec[h].by)
  /\ decisions' = [decisions EXCEPT ![dec[h].wid] = @ + 1]
  /\ sent' = sent \cup {Msg(dec[h].wd.user_id, "declined", dec[h].wid)}
  /\ reply' = Reply(dec[h].by, "Declined")
  /\ dec' = [dec EXCEPT ![h] = IdleDecider]
  /\ UNCHANGED <<users_col, settings_col, att, admins, debits, stops, listed>>

\* The process stops (or update_one raises) between two storage operations of
\* the handler: the operations done so far stay, the rest never runs.
DecideStop(h) ==
  /\ dec[h].pc # "idle"
  /\ stops < MaxStops
  /\ stops' = stops + 1
  /\ dec' = [dec EXCEPT ![h] = IdleDecider]
  /\ UNCHANGED <<users_col, withdraws_col, settings_col, att, admins, reply,
                 sent, debits, decisions, listed>>

\* ---------------------------------------------------------------- verify
\* A task slot no verify_group_process runs in.  credits, price and outcome
\* record what the task has done; start_price is the stored price when the
\* task was created (the task itself reads the price at line 403 only).
IdleAttempt == [pc |-> "idle", caller |-> 0, link |-> "", waited |-> 0,
                outcome |-> "none", credits |-> 0, price |-> 0,
                start_price |-> 0]

\* The task at its end: outcome is the message it sent last (or "Error": an
\* awaited send_message outside any try raised).
Ended(r, outcome) == [r EXCEPT !.pc = "done", !.outcome = outcome]

\* cmd_verify, lines 417-425: link is the text after "/verify" ("": none).
cmd_verify(u, link) ==
  /\ IF link = ""
     THEN /\ reply' = Reply(u, "Usage")
          /\ UNCHANGED <<users_col, att>>
     ELSE \E a \in Attempts :
            /\ att[a].pc = "idle"
            /\ \A b \in Attempts : b < a => att[b].pc # "idle"
            /\ users_col' = ensure_user(users_col, u)
            /\ reply' = Reply(u, "Starting")
            /\ att' = [att EXCEPT ![a] = [IdleAttempt EXCEPT !.pc = "join",
                                          !.caller = u, !.link = link,
                                          !.start_price = get_price]]
  /\ UNCHANGED <<withdraws_col, settings_col, admins, dec, sent, debits,
                 decisions, stops, listed>>

\* What JoinChannelRequest(link) may do: return, raise RPCError (the answer
\* of the server: flood wait, private channel, too many channels, ...) or
\* raise another exception (no connection, ValueError for the link, ...).
JoinResults(link) ==
  IF link \in Closed THEN {"RPCError", "Exception"}
  ELSE {"ok", "RPCError", "Exception"}

\* Whether a userbot.send_message to the group may return (TRUE) or raise.
SendResults(link) == IF link \in Closed THEN {FALSE} ELSE BOOLEAN

\* Lines 364-368: JoinChannelRequest returns, raises RPCError (ignored) or
\* raises another exception (then the message of line 370 is tried).
Join(a) ==
  /\ att[a].pc = "join"
  /\ \E result \in JoinResults(att[a].link) :
       att' = [att EXCEPT ![a].pc =
                 IF result = "Exception" THEN "fallback" ELSE "resolve"]
  /\ UNCHANGED <<users_col, withdraws_col, settings_col, admins, dec, reply,
                 sent, debits, decisions, stops, listed>>

\* Lines 369-373: userbot.send_message(group_link, "A") after a failed join.
Fallback(a) ==
  /\ att[a].pc = "fallback"
  /\ \E ok \in SendResults(att[a].link) :
       IF ok
       THEN /\ att' = [att EXCEPT ![a].pc = "resolve"]
            /\ UNCHANGED sent
       ELSE /\ att' = [att EXCEPT ![a] = Ended(@, "ProbeUnreachable")]
            /\ sent' = sent \cup {Msg(att[a].caller, "ProbeUnreachable", att[a].link)}
  /\ UNCHANGED <<users_col, withdraws_col, settings_col, admins, dec, reply,
                 debits, decisions, stops, listed>>

\* Faulty variant: "or" where "and" is meant.
OldGroupOr(year) == 2016 <= year \/ year <= 2024
\* The test of line 386.
OldGroup(year) == 2016 <= year /\ year <= 2024

\* Lines 383-388: whether the creation date read from the entity ends the task.
RejectedAge(created) == created # 0 /\ ~OldGroup(created)

\* Lines 376-388: get_entity, then the check of the creation date.
Resolve(a) ==
  /\ att[a].pc = "resolve"
  /\ \E found \in BOOLEAN :
       IF ~found
       THEN /\ att' = [att EXCEPT ![a] = Ended(@, "NotFound")]
            /\ sent' = sent \cup {Msg(att[a].caller, "NotFound", att[a].link)}
       ELSE IF RejectedAge(GroupDate(att[a].link))
       THEN /\ att' = [att EXCEPT ![a] = Ended(@, "InvalidGroupAge")]
            /\ sent' = sent \cup {Msg(att[a].caller, "InvalidGroupAge", att[a].link)}
       ELSE /\ att' = [att EXCEPT ![a].pc = "signal"]
            /\ UNCHANGED sent
  /\ UNCHANGED <<users_col, withdraws_col, settings_col, admins, dec, reply,
                 debits, decisions, stops, listed>>

\* Lines 391-399: the "A" message (signalled: whether it was sent; line 394
\* ignores its failure), the "waiting" message to the caller (outside any try:
\* if it raises the task ends), and waited = 0.
Signal(a) ==
  /\ att[a].pc = "signal"
  /\ \E signalled \in SendResults(att[a].link), delivered \in BOOLEAN :
       IF delivered
       THEN /\ att' = [att EXCEPT ![a].pc = "poll", ![a].waited = 0]
            /\ sent' = sent \cup {Msg(att[a].caller, "Waiting", att[a].link)}
       ELSE /\ att' = [att EXCEPT ![a] = Ended(@, "Error")]
            /\ UNCHANGED sent
  /\ UNCHANGED <<users_col, withdraws_col, settings_col, admins, dec, reply,
                 debits, decisions, stops, listed>>

\* The loop test of line 400.
Polling(r) == r.pc = "poll" /\ r.waited < timeout

\* Faulty variant: the sleep is not counted.
SleptNoCount(r) == r
\* Lines 412-413: asyncio.sleep(interval); waited += interval.
Slept(r) == [r EXCEPT !.waited = @ + interval]

\* Faulty variant: no return after the credit, the loop goes on.
CreditedNoReturn(r, price) ==
  [r EXCEPT !.credits = @ + 1, !.price = price, !.outcome = "Verified"]
\* Lines 403-411: the task after the credit of price: it returns.
Credited(r, price) ==
  [Ended(r, "Verified") EXCEPT !.credits = @ + 1, !.price = price]

\* The seconds one call of is_userbot_admin_in (two requests to the server)
\* may take: none, or one.
ProbeTimes == {0, 1}

\* The seconds since the loop of line 400 was entered, for a task whose probes
\* (line 401) take d seconds each: every iteration done so far has taken one
\* probe and one sleep of interval seconds.
Elapsed(r, d) == (r.waited \div interval) * (d + interval)

\* is_userbot_admin_in, lines 351-360: True only when the account is among the
\* group's administrators; any exception of the two calls gives False.
is_userbot_admin_in(link) == {FALSE, (link \in admins)}

\* Faulty variant: the task credits the price stored when it was created.
PriceAtStart(r) == r.start_price
\* price = get_price() at line 403, read when task r has seen the promotion.
PriceAtCredit(r) == get_price

\* One iteration of the loop of lines 400-413.
Poll(a) ==
  /\ Polling(att[a])
  /\ \E admin_now \in is_userbot_admin_in(att[a].link) :
       IF admin_now
       THEN /\ users_col' = CreditAndPush(users_col, att[a].caller,
                                          PriceAtCredit(att[a]), att[a].link)
            /\ att' = [att EXCEPT ![a] = Credited(@, PriceAtCredit(att[a]))]
            /\ sent' = sent \cup {Msg(att[a].caller, "Verified", att[a].link),
                                  Msg(0, "channel_verified", att[a].link)}
       ELSE /\ att' = [att EXCEPT ![a] = Slept(@)]
            /\ UNCHANGED <<users_col, sent>>
  /\ UNCHANGED <<withdraws_col, settings_col, admins, dec, reply, debits,
                 decisions, stops, listed>>

\* Line 414: the loop ended without a promotion.
TimeOut(a) ==
  /\ att[a].pc = "poll"
  /\ ~Polling(att[a])
  /\ att' = [att EXCEPT ![a] = Ended(@, "TimedOut")]
  /\ sent' = sent \cup {Msg(att[a].caller, "TimedOut", att[a].link)}
  /\ UNCHANGED <<users_col, withdraws_col, settings_col, admins, dec, reply,
                 debits, decisions, stops, listed>>

\* The environment: the owner of group g promotes the userbot account.
Promote(g) ==
  /\ g \notin admins
  /\ admins' = admins \cup {g}
  /\ UNCHANGED <<users_col, withdraws_col, settings_col, att, dec, reply,
                 sent, debits, decisions, stops, listed>>

\* The owner promotes the account t seconds after task a entered its loop,
\* the probes answering at once: the task sleeps between the probe before t
\* and the next one.
PromoteAt(a, t) ==
  /\ att[a].pc = "poll"
  /\ Elapsed(att[a], 0) - interval < t
  /\ t <= Elapsed(att[a], 0)
  /\ Promote(att[a].link)

\* An iteration of the loop in which get_participants and get_me raise nothing:
\* is_userbot_admin_in answers whether the account is an administrator.
TruthfulPoll(a) ==
  /\ Poll(a)
  /\ att[a].link \in admins => att'[a].credits = att[a].credits + 1

\* The _id values of the documents of the withdraws collection.
WithdrawIds == 1..Len(withdraws_col)

\* ------------------------------------------------------------- the system
\* After the module is loaded: the default price is stored (line 90), the
\* collections are empty, no handler or task runs.
Init ==
  /\ users_col = <<>>
  /\ withdraws_col = <<>>
  /\ settings_col = DEFAULT_PRICE
  /\ att = [a \in Attempts |-> IdleAttempt]
  /\ admins = {}
  /\ dec = [h \in Deciders |-> IdleDecider]
  /\ reply = Reply(0, "none")
  /\ sent = {}
  /\ debits = <<>>
  /\ decisions = <<>>
  /\ stops = 0
  /\ listed = <<>>

Next ==
  \/ \E u \in Users, args \in PriceArgs : cmd_price(u, args)
  \/ \E u \in Users : cmd_wdlist(u)
  \/ \E u \in Users, addr \in Addresses : handle_withdraw_address(u, addr)
  \/ \E h \in Deciders, u \in Users, kind \in {"approve", "decline"},
        wid \in 0..MaxWithdraws : DecideBegin(h, u, kind, wid)
  \/ \E h \in Deciders : ApproveDebit(h)
  \/ \E h \in Deciders : ApproveSet(h)
  \/ \E h \in Deciders : DeclineSet(h)
  \/ \E h \in Deciders : DecideStop(h)
  \/ \E u \in Users, link \in Groups \cup Closed \cup {""} : cmd_verify(u, link)
  \/ \E a \in Attempts : Join(a)
  \/ \E a \in Attempts : Fallback(a)
  \/ \E a \in Attempts : Resolve(a)
  \/ \E a \in Attempts : Signal(a)
  \/ \E a \in Attempts : Poll(a)
  \/ \E a \in Attempts : TimeOut(a)
  \/ \E g \in Groups \cup Closed : Promote(g)

Spec == Init /\ [][Next]_vars

\* The verification workflow alone: /verify, the tasks and the owners'
\* promotions, from the state after construction.  A promotion is observable
\* only through a running task, so the owner of a group acts while a task
\* runs for it (also before the task has joined: "already administrator").
Running(r) == r.pc \notin {"idle", "done"}

NextVerify ==
  \/ \E u \in Users, link \in Groups \cup {""} : cmd_verify(u, link)
  \/ \E a \in Attempts : Join(a)
  \/ \E a \in Attempts : Fallback(a)
  \/ \E a \in Attempts : Resolve(a)
  \/ \E a \in Attempts : Signal(a)
  \/ \E a \in Attempts : Poll(a)
  \/ \E a \in Attempts : TimeOut(a)
  \/ \E a \in Attempts : Running(att[a]) /\ Promote(att[a].link)

SpecVerify == Init /\ [][NextVerify]_vars

\* The withdrawal ledger.  Both tasks verify group g2016 for user 2, whom the
\* owner has promoted the userbot account for: the first task has credited the
\* default price, the second is in the last iteration of its polling loop and
\* credits or times out while submissions, decisions and price changes go on.
LastPoll(u) == [IdleAttempt EXCEPT !.pc = "poll", !.caller = u,
                                   !.link = "g2016",
                                   !.waited = timeout - interval,
                                   !.start_price = DEFAULT_PRICE]

InitLedger ==
  /\ att = [a \in Attempts |->
              IF a = 1 THEN Credited(LastPoll(2), DEFAULT_PRICE) ELSE LastPoll(2)]
  /\ users_col = CreditAndPush(<<>>, 2, DEFAULT_PRICE, "g2016")
  /\ sent = {Msg(2, "Waiting", "g2016"), Msg(2, "Verified", "g2016"),
             Msg(0, "channel_verified", "g2016")}
  /\ withdraws_col = <<>>
  /\ settings_col = DEFAULT_PRICE
  /\ admins = {"g2016"}
  /\ dec = [h \in Deciders |-> IdleDecider]
  /\ reply = Reply(0, "none")
  /\ debits = <<>>
  /\ decisions = <<>>
  /\ stops = 0
  /\ listed = <<>>

\* The admin's decisions on every request id (those no document has yet
\* included), the users' submissions, the
\* admin lowering the price to -3, and the pending credit.
NextLedger ==
  \/ cmd_price(ADMIN_ID, << <<"-", "3">> >>)
  \/ \E u \in Users, addr \in Addresses : handle_withdraw_address(u, addr)
  \/ \E h \in Deciders, kind \in {"approve", "decline"},
        wid \in 1..MaxWithdraws : DecideBegin(h, ADMIN_ID, kind, wid)
  \/ \E h \in Deciders : ApproveDebit(h)
  \/ \E h \in Deciders : ApproveSet(h)
  \/ \E h \in Deciders : DeclineSet(h)
  \/ \E a \in Attempts : Poll(a)
  \/ \E a \in Attempts : TimeOut(a)

SpecLedger == InitLedger /\ [][NextLedger]_vars

\* The price setting next to running verifications: every /price message of
\* every sender, while user 2 verifies group g2016 (twice).
NextPrice ==
  \/ \E u \in Users, args \in PriceArgs : cmd_price(u, args)
  \/ cmd_verify(2, "g2016")
  \/ \E a \in Attempts : Join(a)
  \/ \E a \in Attempts : Fallback(a)
  \/ \E a \in Attempts : Resolve(a)
  \/ \E a \in Attempts : Signal(a)
  \/ \E a \in Attempts : Poll(a)
  \/ \E a \in Attempts : TimeOut(a)
  \/ \E a \in Attempts : Running(att[a]) /\ Promote(att[a].link)

SpecPrice == Init /\ [][NextPrice]_vars

\* The verification workflow of user 2 under the event loop's scheduling: a
\* task whose awaited call or sleep has returned is resumed.  Nothing obliges
\* a user to send /verify or an owner to promote.
NextVerifyOne ==
  \/ \E link \in Groups : cmd_verify(2, link)
  \/ \E a \in Attempts : Join(a)
  \/ \E a \in Attempts : Fallback(a)
  \/ \E a \in Attempts : Resolve(a)
  \/ \E a \in Attempts : Signal(a)
  \/ \E a \in Attempts : Poll(a)
  \/ \E a \in Attempts : TimeOut(a)
  \/ \E a \in Attempts : Running(att[a]) /\ Promote(att[a].link)

SpecVerifyFair ==
  /\ Init
  /\ [][NextVerifyOne]_vars
  /\ \A a \in Attempts : WF_vars(Poll(a)) /\ WF_vars(TimeOut(a))

\* The admin commands as every sender may send them.  User 2 has verified
\* group g2016 at the default price; the submissions, every /price message and
\* every approve or decline callback (of ids no document has, too) come from
\* the admin and from user 2.
InitAdmin ==
  /\ att = [a \in Attempts |->
              IF a = 1 THEN Credited(LastPoll(2), DEFAULT_PRICE) ELSE IdleAttempt]
  /\ users_col = CreditAndPush(<<>>, 2, DEFAULT_PRICE, "g2016")
  /\ sent = {Msg(2, "Waiting", "g2016"), Msg(2, "Verified", "g2016"),
             Msg(0, "channel_verified", "g2016")}
  /\ withdraws_col = <<>>
  /\ settings_col = DEFAULT_PRICE
  /\ admins = {"g2016"}
  /\ dec = [h \in Deciders |-> IdleDecider]
  /\ reply = Reply(0, "none")
  /\ debits = <<>>
  /\ decisions = <<>>
  /\ stops = 0
  /\ listed = <<>>

NextAdmin ==
  \/ \E u \in Users, args \in PriceArgs : cmd_price(u, args)
  \/ \E u \in Users, addr \in Addresses : handle_withdraw_address(u, addr)
  \/ \E h \in Deciders, u \in Users, kind \in {"approve", "decline"},
        wid \in 0..MaxWithdraws : DecideBegin(h, u, kind, wid)
  \/ \E h \in Deciders : ApproveDebit(h)
  \/ \E h \in Deciders : ApproveSet(h)
  \/ \E h \in Deciders : DeclineSet(h)

SpecAdmin == InitAdmin /\ [][NextAdmin]_vars

\* One verification, one withdrawal, approved twice: a user verifies a group
\* of 2016 or 2024 that the owner promotes the account in 47 seconds after the
\* polling began, the probes answering truthfully; the user sends an address
\* (once a request exists, no further one); the admin clicks approve on the
\* request, again and again, each click after the handling of the one before.
NextTrace ==
  \/ \E u \in Users, link \in {"g2016", "g2024"} :
        (\A a \in Attempts : att[a].pc = "idle") /\ cmd_verify(u, link)
  \/ \E a \in Attempts : Join(a)
  \/ \E a \in Attempts : Fallback(a)
  \/ \E a \in Attempts : Resolve(a)
  \/ \E a \in Attempts : Signal(a)
  \/ \E a \in Attempts : TruthfulPoll(a)
  \/ \E a \in Attempts : TimeOut(a)
  \/ \E a \in Attempts : PromoteAt(a, 47)
  \/ \E u \in Users, addr \in Addresses :
        withdraws_col = <<>> /\ handle_withdraw_address(u, addr)
  \/ \E h \in Deciders, wid \in WithdrawIds :
        (\A g \in Deciders : dec[g].pc = "idle")
        /\ DecideBegin(h, ADMIN_ID, "approve", wid)
  \/ \E h \in Deciders : ApproveDebit(h)
  \/ \E h \in Deciders : ApproveSet(h)

SpecTrace == Init /\ [][NextTrace]_vars

\* The admin's review: user 2, credited the default price, sends addresses;
\* the admin lists the pending requests and approves or declines them.
NextList ==
  \/ \E u \in Users : cmd_wdlist(u)
  \/ \E u \in Users, addr \in Addresses : handle_withdraw_address(u, addr)
  \/ \E h \in Deciders, kind \in {"approve", "decline"},
        wid \in WithdrawIds : DecideBegin(h, ADMIN_ID, kind, wid)
  \/ \E h \in Deciders : ApproveDebit(h)
  \/ \E h \in Deciders : ApproveSet(h)
  \/ \E h \in Deciders : DeclineSet(h)

SpecList == InitAdmin /\ [][NextList]_vars

\* The verification of a reachable and of an unreachable group of 2016 by
\* user 2.
NextProbe ==
  \/ \E link \in {"g2016"} \cup Closed : cmd_verify(2, link)
  \/ \E a \in Attempts : Join(a)
  \/ \E a \in Attempts : Fallback(a)
  \/ \E a \in Attempts : Resolve(a)
  \/ \E a \in Attempts : Signal(a)
  \/ \E a \in Attempts : Poll(a)
  \/ \E a \in Attempts : TimeOut(a)
  \/ \E a \in Attempts : Running(att[a]) /\ Promote(att[a].link)

SpecProbe == Init /\ [][NextProbe]_vars

\* The decisions of the admin on the requests of user 2, with handlers that
\* stop between two storage operations (the process is killed, or the
\* update_one of line 265 or 297 raises).
NextStop ==
  \/ \E u \in Users, addr \in Addresses : handle_withdraw_address(u, addr)
  \/ \E h \in Deciders, kind \in {"approve", "decline"},
        wid \in WithdrawIds : DecideBegin(h, ADMIN_ID, kind, wid)
  \/ \E h \in Deciders : ApproveDebit(h)
  \/ \E h \in Deciders : ApproveSet(h)
  \/ \E h \in Deciders : DeclineSet(h)
  \/ \E h \in Deciders : DecideStop(h)

SpecStop == InitAdmin /\ [][NextStop]_vars

\* ------------------------------------------------------------ properties
RECURSIVE SumCredits(_, _)
\* The sum of the prices the tasks in as have credited to user u.
SumCredits(as, u) ==
  IF as = {} THEN 0
  ELSE LET a == CHOOSE x \in as : TRUE
       IN (IF att[a].caller = u THEN att[a].credits * att[a].price ELSE 0)
          + SumCredits(as \ {a}, u)

RECURSIVE SumDebits(_, _)
\* The sum of the debits applied to user u for the requests 1..n.
SumDebits(n, u) ==
  IF n = 0 THEN 0
  ELSE (IF withdraws_col[n].user_id = u
        THEN debits[n] * withdraws_col[n].amount ELSE 0)
       + SumDebits(n - 1, u)

\* C1 (as claimed): a withdrawal request leaves "pending" at most once: over
\* all interleavings of decision handlers its status is set at most one time,
\* so a terminal status is never overwritten and every other decision is
\* answered AlreadyProcessed.
C1_DecidedAtMostOnce ==
  \A w \in WithdrawIds : decisions[w] <= 1

\* C2 (as claimed): an approved request of amount A has been debited exactly
\* once, and no request is ever debited twice, however often the approval is
\* delivered or handled concurrently.
C2_DebitedExactlyOnce ==
  \A w \in WithdrawIds :
    /\ debits[w] <= 1
    /\ withdraws_col[w].status = "approved" => debits[w] = 1

\* C3: every user's balance is the sum of the credits applied for the user
\* minus the sum of the debits applied to the user (accounts start at 0): no
\* credit or debit is lost in any interleaving.
C3_NoLostUpdate ==
  \A u \in Users :
    Balance(u) = SumCredits(Attempts, u) - SumDebits(Len(withdraws_col), u)

\* C3 witness: two credits and two debits have been applied to user 2.
C3_Witness ==
  /\ \A a \in Attempts : att[a].caller = 2 /\ att[a].credits = 1
  /\ \E w \in WithdrawIds : withdraws_col[w].user_id = 2 /\ debits[w] >= 2

\* C4: a submission by a user whose balance is not positive is answered
\* EmptyBalance and changes neither the requests, nor any balance, nor the
\* messages sent to the admin.
C4_EmptyBalanceRejected ==
  [][\A u \in Users, addr \in Addresses :
       (Balance(u) <= 0 /\ handle_withdraw_address(u, addr))
       => /\ reply' = "EmptyBalance"
          /\ withdraws_col' = withdraws_col
          /\ sent' = sent
          /\ \A v \in Users : Balance(v)' = Balance(v)]_vars

\* C4 witness: a submission was rejected while user 2, who has requests on
\* record, has a balance of 0 or less and the admin has no balance at all.
C4_Witness ==
  /\ reply = "EmptyBalance"
  /\ Balance(2) <= 0
  /\ Len(withdraws_col) > 0

\* C5: a request is created pending with the submitter's balance as its
\* amount; no step changes the amount or the owner of an existing request;
\* and each debit subtracts the stored amount of the request from its owner.
C5_AmountFixed ==
  [][/\ \A w \in WithdrawIds :
          /\ w \in 1..Len(withdraws_col')
          /\ withdraws_col'[w].amount = withdraws_col[w].amount
          /\ withdraws_col'[w].user_id = withdraws_col[w].user_id
          /\ debits'[w] # debits[w] =>
                Balance(withdraws_col[w].user_id)' =
                  Balance(withdraws_col[w].user_id) - withdraws_col[w].amount
     /\ \A w \in 1..Len(withdraws_col') :
          w \notin WithdrawIds =>
            /\ withdraws_col'[w].status = "pending"
            /\ withdraws_col'[w].amount = Balance(withdraws_col'[w].user_id)
            /\ withdraws_col'[w].amount > 0]_vars

\* C5 witness: a handler has debited a request whose amount differs from the
\* balance its owner had at that moment (the price changed and a credit came
\* in between).
C5_Witness ==
  \E h \in Deciders :
    /\ dec[h].pc = "approved"
    /\ debits[dec[h].wid] = 1
    /\ settings_col # DEFAULT_PRICE
    /\ Balance(dec[h].wd.user_id) \notin {0, 0 - dec[h].wd.amount}

\* C6: a verification task credits at most once: its credit count is 0 or 1,
\* every credit of a user is one entry of the user's verified_groups, a task
\* that has credited has ended as Verified, and a task that has ended takes no
\* further step.
C6_CreditAtMostOnce ==
  /\ [](\A a \in Attempts :
          /\ att[a].credits \in {0, 1}
          /\ att[a].credits = 1 => att[a].pc = "done" /\ att[a].outcome = "Verified")
  /\ [](\A u \in Users :
          Len(VerifiedGroups(u)) =
            Cardinality({a \in Attempts : att[a].caller = u /\ att[a].credits > 0}))
  /\ [][\A a \in Attempts : att[a].pc = "done" => att'[a] = att[a]]_vars

\* C6 witness: a task has credited its caller.
C6_Witness ==
  \E a \in Attempts :
    /\ att[a].credits = 1
    /\ Balance(att[a].caller) = DEFAULT_PRICE
    /\ VerifiedGroups(att[a].caller) = <<att[a].link>>

SamePair(a, b) == att[a].caller = att[b].caller /\ att[a].link = att[b].link

\* C7 (as claimed): no two running tasks have the same caller and group, and
\* no two tasks with the same caller and group have both credited.
C7_NoDuplicateAttempt ==
  \A a, b \in Attempts :
    (a # b /\ SamePair(a, b)) =>
      /\ ~(Running(att[a]) /\ Running(att[b]))
      /\ ~(att[a].credits > 0 /\ att[b].credits > 0)

\* Whether the entity of the link carries a creation year outside 2016..2024.
TooYoungOrOld(link) == GroupDate(link) # 0 /\ ~(GroupDate(link) \in 2016..2024)

C9_TimesOut ==
  /\ \A a \in Attempts :
       (att[a].pc = "poll") ~>
         (att[a].pc = "done" /\ att[a].outcome \in {"Verified", "TimedOut"})
  /\ [](\A a \in Attempts :
          /\ att[a].outcome = "Verified" => att[a].link \in admins
          /\ att[a].outcome = "TimedOut" =>
               /\ att[a].waited >= timeout
               /\ att[a].credits = 0
               /\ Msg(att[a].caller, "TimedOut", att[a].link) \in sent)
  /\ [][\A u \in Users :
          (Balance(u)' # Balance(u) \/ VerifiedGroups(u)' # VerifiedGroups(u))
            => \E a \in Attempts :
                 /\ att[a].caller = u
                 /\ att'[a].credits = att[a].credits + 1
                 /\ att'[a].outcome = "Verified"]_vars

\* C9 witness: a task timed out for a group with no promotion, its caller's
\* balance is 0 and no group is recorded for the caller.
C9_Witness ==
  \E a \in Attempts :
    /\ att[a].outcome = "TimedOut"
    /\ att[a].link \notin admins
    /\ Balance(att[a].caller) = 0
    /\ VerifiedGroups(att[a].caller) = <<>>

\* C10 (as claimed): the stored price is never negative and no task has
\* credited a negative price.
C10_PriceNonNegative ==
  /\ settings_col >= 0
  /\ \A a \in Attempts : att[a].credits > 0 => att[a].price >= 0

\* C11: a /price message or an approve or decline callback whose sender is not
\* the admin is answered Unauthorized and changes no request, no balance, not
\* the price, starts no decision handler and sends no message.
C11_UnauthorizedNoChange ==
  [][\A u \in Users :
       (/\ u # ADMIN_ID
        /\ \/ \E args \in PriceArgs : cmd_price(u, args)
           \/ \E h \in Deciders, kind \in {"approve", "decline"},
                 wid \in 0..MaxWithdraws : DecideBegin(h, u, kind, wid))
       => /\ reply' = "Unauthorized"
          /\ withdraws_col' = withdraws_col
          /\ users_col' = users_col
          /\ settings_col' = settings_col
          /\ dec' = dec
          /\ sent' = sent]_vars

\* C11 witness: a sender was answered Unauthorized while a request is pending,
\* its owner has a balance and the price is the default.
C11_Witness ==
  /\ reply = "Unauthorized"
  /\ settings_col = DEFAULT_PRICE
  /\ \E w \in WithdrawIds :
       /\ withdraws_col[w].status = "pending"
       /\ Balance(withdraws_col[w].user_id) > 0

\* C12: in the run "verify, promoted after 47 s, submit, approve, approve
\* again" from price 100 and balance 0: the task credits at its first probe
\* after the promotion, 50 s into the loop and before the timeout; a user's
\* balance is 100 from the credit until the debit and 0 otherwise, and the
\* group is recorded once; the request has amount 100 and is pending until
\* approved; once approved it is debited once, the balance is 0 and the user
\* has been notified; and an approve click on the approved request is answered
\* AlreadyProcessed, changes no balance and starts no handler.
C12_EndToEnd ==
  /\ [](\A a \in Attempts :
          att[a].outcome = "Verified" =>
            /\ Elapsed(att[a], 0) = 50
            /\ Elapsed(att[a], 0) < timeout
            /\ att[a].price = 100)
  /\ [](\A u \in Users :
          LET verified == {a \in Attempts :
                             att[a].caller = u /\ att[a].outcome = "Verified"}
              debited == {w \in WithdrawIds :
                            withdraws_col[w].user_id = u /\ debits[w] > 0}
          IN /\ Balance(u) = IF verified # {} /\ debited = {} THEN 100 ELSE 0
             /\ \A a \in verified : VerifiedGroups(u) = <<att[a].link>>
             /\ verified = {} => VerifiedGroups(u) = <<>>)
  /\ [](\A w \in WithdrawIds :
          /\ withdraws_col[w].amount = 100
          /\ withdraws_col[w].status \in {"pending", "approved"}
          /\ debits[w] <= 1
          /\ withdraws_col[w].status = "approved" =>
               /\ debits[w] = 1
               /\ Balance(withdraws_col[w].user_id) = 0
               /\ Msg(withdraws_col[w].user_id, "approved", w) \in sent)
  /\ [][\A h \in Deciders, w \in WithdrawIds :
          (withdraws_col[w].status = "approved"
           /\ DecideBegin(h, ADMIN_ID, "approve", w))
          => /\ reply' = "AlreadyProcessed"
             /\ users_col' = users_col
             /\ withdraws_col' = withdraws_col
             /\ dec' = dec]_vars

\* C12 witness: the end of the run: the task verified 50 s into its loop, the
\* request of 100 is approved, the balance is 0 and the last approve click
\* was answered AlreadyProcessed.
C12_Witness ==
  /\ reply = "AlreadyProcessed"
  /\ \E a \in Attempts, w \in WithdrawIds :
       /\ att[a].outcome = "Verified"
       /\ att[a].waited = 50
       /\ withdraws_col[w].user_id = att[a].caller
       /\ withdraws_col[w].amount = 100
       /\ withdraws_col[w].status = "approved"
       /\ Balance(att[a].caller) = 0
       /\ VerifiedGroups(att[a].caller) = <<att[a].link>>

\* C13 (as claimed): the answer of /wdlist to the admin holds exactly the
\* requests that are pending when it is given, each once, and lists them by
\* created_at ascending.
C13_ListedOldestFirst ==
  /\ [](\A i, j \in DOMAIN listed :
          i < j => withdraws_col[listed[i]].created_at
                     <= withdraws_col[listed[j]].created_at)
  /\ [][cmd_wdlist(ADMIN_ID) =>
          /\ {listed'[i] : i \in DOMAIN listed'}
               = {w \in WithdrawIds : withdraws_col[w].status = "pending"}
             \/ (reply' = "NoPending" /\ listed' = listed)
          /\ \A i, j \in DOMAIN listed' : i # j => listed'[i] # listed'[j]]_vars

\* C14 (as claimed): a task for a group in which both the join and the signal
\* fail, whatever the join raised, never enters the polling loop, so it
\* neither credits nor times out.
C14_AbortsWhenBothFail ==
  \A a \in Attempts :
    att[a].link \in Closed =>
      /\ att[a].pc # "poll"
      /\ att[a].credits = 0
      /\ att[a].outcome \notin {"Verified", "TimedOut"}

\* C15 (as claimed): whatever time the probes take, no task is in an iteration
\* of its polling loop, and none has credited, later than timeout seconds
\* after the loop was entered.
C15_HardDeadline ==
  \A a \in Attempts, d \in ProbeTimes :
    /\ Polling(att[a]) => Elapsed(att[a], d) <= timeout
    /\ att[a].credits > 0 => Elapsed(att[a], d) + d <= timeout

\* C16: the step in which a task credits adds the price stored at that
\* moment to the caller's balance, whatever the price was when the task was
\* created, records the group and leaves the price as it is.
C16_CreditsCurrentPrice ==
  [][\A a \in Attempts :
       att'[a].credits = att[a].credits + 1
       => /\ att'[a].price = settings_col
          /\ Balance(att[a].caller)' = Balance(att[a].caller) + settings_col
          /\ VerifiedGroups(att[a].caller)'
               = Append(VerifiedGroups(att[a].caller), att[a].link)
          /\ settings_col' = settings_col]_vars

\* C16 witness: a task created while the price was the default has credited
\* the price the admin set while it ran, and the balance is that price.
C16_Witness ==
  \E a \in Attempts :
    /\ att[a].credits = 1
    /\ att[a].waited > 0
    /\ att[a].start_price = DEFAULT_PRICE
    /\ att[a].price # DEFAULT_PRICE
    /\ Balance(att[a].caller) = att[a].price

\* C17 (as claimed): every group in a user's verified_groups was resolved with
\* a creation year in 2016..2024, and no task for a group whose entity has no
\* creation date has credited.
C17_CreditedGroupsEligible ==
  /\ \A u \in Users : \A i \in 1..Len(VerifiedGroups(u)) :
       GroupDate(VerifiedGroups(u)[i]) \in 2016..2024
  /\ \A a \in Attempts : GroupDate(att[a].link) = 0 => att[a].credits = 0

\* C18 (as claimed): no user's balance is negative.  The runs in which a
\* request was debited or decided twice or a negative price was credited are
\* left aside (C1, C2, C10): the balance is not negative where every request
\* was debited and decided at most once and every credit was positive.
C18_BalanceNonNegative ==
  (/\ \A w \in WithdrawIds : debits[w] <= 1 /\ decisions[w] <= 1
   /\ \A a \in Attempts : att[a].credits > 0 => att[a].price > 0)
  => \A u \in Users : Balance(u) >= 0

\* C19 (as claimed): no user's verified_groups holds the same link twice, and
\* of the tasks of one caller for one link at most one has credited.
C19_PairCreditedOnce ==
  /\ \A u \in Users : \A i, j \in 1..Len(VerifiedGroups(u)) :
       i # j => VerifiedGroups(u)[i] # VerifiedGroups(u)[j]
  /\ \A u \in Users, g \in Groups :
       Cardinality({a \in Attempts : /\ att[a].caller = u
                                     /\ att[a].link = g
                                     /\ att[a].credits > 0}) <= 1

\* C20 (as claimed): a request no handler is working on has been debited if
\* and only if its status is approved, also after a handler stopped between
\* its two writes.
C20_DebitWithStatus ==
  \A w \in WithdrawIds :
    (\A h \in Deciders : dec[h].wid # w)
      => (debits[w] > 0 <=> withdraws_col[w].status = "approved")

=============================================================================
